---- MODULE Spec2Model ----
(***************************************************************************)
(* Payment orchestrator of payment_service (services/payment_service.py):  *)
(* the transaction workflow process_payment, the refund workflow           *)
(* process_refund and the status read get_payment_status, with the         *)
(* persistence, gateway, event, audit and cache collaborators they call.   *)
(* Every collaborator call is one step of the calling task (an await       *)
(* point); tasks interleave between steps.  Amounts are Decimal values     *)
(* counted in minor units; time is time.time() in seconds.                 *)
(***************************************************************************)
EXTENDS Integers, Sequences, FiniteSets, TLC

\* ---------------------------------------------------------------- bounds
NumPayments == 1
NumRefunds == 2
MaxAmount == 2
NumStatus == 2
MaxTicks == 2
\* settings.cache_max_size, scaled down so that a set finds the cache full
CacheMaxSize == 2

\* ------------------------------------------------------ program constants
\* stop_after_attempt(3) on BankingService.authorize_payment
InnerAttempts == 3
\* stop_after_attempt(3) on PaymentService._authorize_payment
OuterAttempts == 3
\* len(merchant_id) < 3 is invalid
MinMerchantLen == 3

PayCalls == 1..NumPayments
RefundCalls == 1..NumRefunds
\* transaction ids a caller can name: the generated ones and one unknown id
TxnIds == 1..(NumPayments + 1)
Amounts == 1..MaxAmount
\* RefundRequest.amount: 0 stands for None (no amount given), else > 0
RefundAmounts == 0..(MaxAmount + 1)
MerchantLens == {MinMerchantLen - 1, MinMerchantLen}
\* PaymentRequest.currency after the validator upper-cased it
Currencies == {"USD", "EUR"}

\* Decimal amounts of a request body, as coefficient * 10^exponent (the
\* as_tuple() of the Decimal): the hundredths from -0.01 up, and one amount
\* with three fractional digits
NoDecimal == [given |-> FALSE, coef |-> 0, exp |-> 0]
Hundredths(cs) == {[given |-> TRUE, coef |-> c, exp |-> -2] : c \in cs}
Thousandths == {[given |-> TRUE, coef |-> 10 * MaxAmount + 1, exp |-> -3]}
PaymentBodies == Hundredths(-1..MaxAmount) \cup Thousandths
\* RefundRequest.amount is Optional: NoDecimal stands for None
RefundBodies == {NoDecimal} \cup Hundredths(-1..(MaxAmount + 1)) \cup Thousandths

VARIABLES
    db_txn,       \* table transactions, by transaction_id
    db_refund,    \* table refunds, by refund_id
    audit_logs,   \* table audit_logs (append-only set of entries)
    events,       \* events published by EventService.publish_event
    gw,           \* what the banking gateway was asked and answered
    pay,          \* the process_payment tasks
    ref,          \* the process_refund tasks
    cache,        \* CacheService._cache, by transaction id of the key
    now,          \* time.time(), in seconds
    st,           \* the get_payment_status tasks
    left_at,      \* history: when each status of a transaction was overwritten
    cop,          \* the last call a client made on the CacheService, with its result
    hc,           \* the health_check task of the route GET /health
    enc,          \* a card passed through encrypt_card_data and decrypt_card_data
    held          \* history: the rows table transactions has held, by transaction_id

vars == <<db_txn, db_refund, audit_logs, events, gw, pay, ref, cache, now, st, left_at,
          cop, hc, enc, held>>

\* --------------------------------------------------------------- enums
PaymentStatus == {"pending", "authorized", "captured", "failed", "cancelled", "expired"}
RefundStatus == {"pending", "processing", "completed", "failed", "cancelled"}

\* responses of the gateway to POST /api/v1/authorize, as authorize_payment
\* tells them apart: 200 with status approved, 200 with another body,
\* 402, another status that raise_for_status lets through (2xx), and
\* a timeout / transport error / error status
AuthResponses == {"200_approved", "200_other", "402", "2xx_other", "error"}

NoTxnRow == [present |-> FALSE, status |-> "pending", amount |-> 0, currency |-> "none",
             authorization_id |-> "null", capture_id |-> "null"]
NoRefundRow == [present |-> FALSE, txn |-> 0, amount |-> 0, currency |-> "none",
                status |-> "pending",
                external_refund_id |-> "null", processed_at |-> FALSE]

\* db_ops counts the statements the call issued on the persistence
\* collaborator; failed_at is the step of the try body that raised
IdlePay == [pc |-> "idle", request_amount |-> NoDecimal,
            amount |-> 0, currency |-> "none", db_ops |-> 0,
            failed_at |-> "none", requests |-> 0, auth |-> "unset",
            authorization_id |-> "null", capture_id |-> "null",
            final_status |-> "unset", before |-> "unset",
            compensated |-> "unset", raised |-> "none", err |-> "none",
            outcome |-> "none", resp |-> "none", resp_capture_id |-> "null"]

\* the history of table transactions after a step that leaves it as rows
Recorded(rows) ==
    [t \in TxnIds |-> IF rows[t].present THEN held[t] \cup {rows[t]} ELSE held[t]]

----------------------------------------------------------------------------
\* pure pieces of process_payment

\* (mutant) an amount of zero passes
ValidAmountOrZero(d) == d.coef >= 0 /\ d.exp >= -2

\* Field(gt=0, decimal_places=2) and validate_amount (exponent < -2 raises)
ValidAmount(d) == d.coef > 0 /\ d.exp >= -2

\* the Decimal in minor units (hundredths)
MinorUnits(d) ==
    CASE d.exp = -2 -> d.coef
      [] d.exp = -1 -> d.coef * 10
      [] d.exp = 0  -> d.coef * 100
      [] OTHER      -> d.coef \div 10

\* _validate_merchant
ValidMerchant(len) == len >= MinMerchantLen

\* (mutant) a 402 is raised like a transport failure, so it is retried
AuthorizeResultDeclineRaises(response) ==
    CASE response = "200_approved" -> "approved"
      [] response = "200_other"    -> "other"
      [] response = "2xx_other"    -> "none"
      [] OTHER                     -> "raise"

\* result of BankingService.authorize_payment for one HTTP response:
\* "raise" = an exception (retried), "none" = the function falls off its end
AuthorizeResult(response) ==
    CASE response = "200_approved" -> "approved"
      [] response = "200_other"    -> "other"
      [] response = "402"          -> "declined"
      [] response = "2xx_other"    -> "none"
      [] OTHER                     -> "raise"

\* both retry decorators: a raise on request n of the call is retried unless
\* the inner budget and the outer budget are both used up
RetryBudget == InnerAttempts * OuterAttempts

\* (mutant) the count of requests starts over before the budget is reached
RequestNumberRestarting(requests) == (requests % (RetryBudget - 1)) + 1

\* number, within the call, of the request about to be made
RequestNumber(requests) == requests + 1

\* (mutant) an approved authorization is persisted as captured at once
AuthorizationStatusCaptured(auth) == IF auth = "approved" THEN "captured" ELSE "failed"

\* status written by _update_transaction_authorization
AuthorizationStatus(auth) == IF auth = "approved" THEN "authorized" ELSE "failed"

\* (mutant) capture is attempted whatever the gateway answered
ShouldCaptureAlways(auth) == TRUE

\* branch of process_payment on authorization_result.get("status")
ShouldCapture(auth) == auth = "approved"

\* (mutant) the final status of an approved payment stays authorized
FinalStatusAuthorized(auth) == IF ShouldCapture(auth) THEN "authorized" ELSE "failed"

\* (mutant) the final status is captured whatever the gateway answered
FinalStatusAlwaysCaptured(auth) == "captured"

\* final_status of process_payment
FinalStatus(auth) == IF ShouldCapture(auth) THEN "captured" ELSE "failed"

\* (mutant) the except handler writes cancelled
CompensationStatusCancelled == "cancelled"

\* status the except handler of process_payment writes
CompensationStatus == "failed"

\* capture_id of the PaymentResponse
ResponseCaptureId(final, capture_id) == IF final = "captured" THEN capture_id ELSE "null"

\* (mutant) the UPDATE has no WHERE clause: every row is written
UpdateTxnEveryRow(t, fields) ==
    [x \in DOMAIN db_txn |->
        IF db_txn[x].present
        THEN [f \in DOMAIN db_txn[x] |->
                 IF f \in DOMAIN fields THEN fields[f] ELSE db_txn[x][f]]
        ELSE db_txn[x]]

\* UPDATE transactions SET ... WHERE transaction_id = t: no row, no effect
UpdateTxn(t, fields) ==
    IF db_txn[t].present
    THEN [db_txn EXCEPT ![t] = [f \in DOMAIN db_txn[t] |->
              IF f \in DOMAIN fields THEN fields[f] ELSE db_txn[t][f]]]
    ELSE db_txn

\* history kept with a write of transaction t: the time at which the status
\* it overwrites stopped being the persisted one
Never == -1
StatusLeft(t) ==
    IF db_txn'[t].status # db_txn[t].status
    THEN [left_at EXCEPT ![t][db_txn[t].status] = now]
    ELSE left_at

\* a step of process_payment raises: control goes to the except handler
PayRaise(p, kind) ==
    pay' = [pay EXCEPT ![p].pc = "handler", ![p].raised = kind, ![p].err = kind,
                       ![p].failed_at = pay[p].pc,
                       ![p].db_ops = IF kind = "DatabaseError" THEN @ + 1 ELSE @]

----------------------------------------------------------------------------
\* process_payment, one action per step

\* the route's body is parsed into a PaymentRequest: a body whose amount
\* fails validation is refused and process_payment is not called
PayRequest(p) ==
    /\ pay[p].pc = "idle"
    /\ \E d \in PaymentBodies :
          IF ValidAmount(d)
          THEN pay' = [pay EXCEPT ![p].pc = "accepted", ![p].request_amount = d]
          ELSE pay' = [pay EXCEPT ![p].pc = "rejected", ![p].request_amount = d,
                                  ![p].err = "ValidationError"]
    /\ UNCHANGED <<db_txn, db_refund, audit_logs, events, gw, ref, cache, now, st, left_at, cop,
                   hc, enc, held>>

\* entry: transaction_id generated, merchant validated
PayStart(p) ==
    /\ pay[p].pc = "accepted"
    /\ \E currency \in Currencies, len \in MerchantLens :
          LET amount == MinorUnits(pay[p].request_amount)
          IN
          IF ValidMerchant(len)
          THEN pay' = [pay EXCEPT ![p].pc = "encrypt", ![p].amount = amount,
                                  ![p].currency = currency]
          ELSE pay' = [pay EXCEPT ![p].pc = "handler", ![p].amount = amount,
                                  ![p].currency = currency,
                                  ![p].failed_at = "validate_merchant",
                                  ![p].raised = "ValueError", ![p].err = "ValueError"]
    /\ UNCHANGED <<db_txn, db_refund, audit_logs, events, gw, ref, cache, now, st, left_at, cop,
                   hc, enc, held>>

\* encrypt_card_data when the request carries card data
PayEncrypt(p) ==
    /\ pay[p].pc = "encrypt"
    /\ \E card \in BOOLEAN, ok \in BOOLEAN :
          IF card /\ ~ok
          THEN PayRaise(p, "EncryptionError")
          ELSE pay' = [pay EXCEPT ![p].pc = "create_transaction"]
    /\ UNCHANGED <<db_txn, db_refund, audit_logs, events, gw, ref, cache, now, st, left_at, cop,
                   hc, enc, held>>

\* _create_transaction: INSERT ... status pending
PayCreateTransaction(p) ==
    /\ pay[p].pc = "create_transaction"
    /\ \E ok \in BOOLEAN :
          IF ok
          THEN /\ db_txn' = [db_txn EXCEPT ![p] =
                      [present |-> TRUE, status |-> "pending", amount |-> pay[p].amount,
                       currency |-> pay[p].currency,
                       authorization_id |-> "null", capture_id |-> "null"]]
               /\ pay' = [pay EXCEPT ![p].pc = "authorize", ![p].db_ops = @ + 1]
          ELSE /\ PayRaise(p, "DatabaseError")
               /\ UNCHANGED db_txn
    /\ UNCHANGED <<db_refund, audit_logs, events, gw, ref, cache, now, st, left_at, cop, hc, enc>>
    /\ held' = Recorded(db_txn')

\* _authorize_payment: one request to the gateway, under both retry decorators;
\* requests counts the requests of this call while the retries run
PayAuthorize(p) ==
    /\ pay[p].pc = "authorize"
    /\ \E response \in AuthResponses :
          LET n == RequestNumber(pay[p].requests)
              result == AuthorizeResult(response)
          IN /\ gw' = [gw EXCEPT !.authorize[p] = TRUE,
                                  !.declined[p] = @ \/ response = "402",
                                  !.approved[p] = @ \/ result = "approved"]
             /\ IF result = "raise"
                THEN IF n < RetryBudget
                     THEN pay' = [pay EXCEPT ![p].requests = n]
                     ELSE pay' = [pay EXCEPT ![p].requests = 0, ![p].pc = "handler",
                                             ![p].failed_at = "authorize",
                                             ![p].raised = "RetryError",
                                             ![p].err = "RetryError"]
                ELSE pay' = [pay EXCEPT ![p].requests = 0, ![p].auth = result,
                                        ![p].authorization_id =
                                            IF result = "approved" THEN "auth" ELSE "null",
                                        ![p].pc = "update_authorization"]
    /\ UNCHANGED <<db_txn, db_refund, audit_logs, events, ref, cache, now, st, left_at, cop, hc,
                   enc, held>>

\* _update_transaction_authorization
PayUpdateAuthorization(p) ==
    /\ pay[p].pc = "update_authorization"
    /\ IF pay[p].auth = "none"
       THEN \* authorization_result is None: .get raises before the query
            /\ PayRaise(p, "AttributeError")
            /\ UNCHANGED db_txn
       ELSE \E ok \in BOOLEAN :
          IF ok
          THEN /\ db_txn' = UpdateTxn(p, [authorization_id |-> pay[p].authorization_id,
                                          status |-> AuthorizationStatus(pay[p].auth)])
               /\ pay' = [pay EXCEPT ![p].db_ops = @ + 1, ![p].pc =
                             IF ShouldCapture(pay[p].auth) THEN "capture" ELSE "update_status",
                                     ![p].final_status =
                             IF ShouldCapture(pay[p].auth) THEN "unset"
                             ELSE FinalStatus(pay[p].auth)]
          ELSE /\ PayRaise(p, "DatabaseError")
               /\ UNCHANGED db_txn
    /\ left_at' = StatusLeft(p)
    /\ UNCHANGED <<db_refund, audit_logs, events, gw, ref, cache, now, st, cop, hc, enc>>
    /\ held' = Recorded(db_txn')

\* _capture_payment: one request to the gateway, no retry
PayCapture(p) ==
    /\ pay[p].pc = "capture"
    /\ \E ok \in BOOLEAN :
          /\ gw' = [gw EXCEPT !.capture[p] = @ + 1, !.captured[p] = @ \/ ok]
          /\ IF ok
             THEN pay' = [pay EXCEPT ![p].pc = "update_capture", ![p].capture_id = "cap"]
             ELSE PayRaise(p, "GatewayError")
    /\ UNCHANGED <<db_txn, db_refund, audit_logs, events, ref, cache, now, st, left_at, cop, hc,
                   enc, held>>

\* _update_transaction_capture
PayUpdateCapture(p) ==
    /\ pay[p].pc = "update_capture"
    /\ \E ok \in BOOLEAN :
          IF ok
          THEN /\ db_txn' = UpdateTxn(p, [capture_id |-> pay[p].capture_id])
               /\ pay' = [pay EXCEPT ![p].pc = "update_status", ![p].db_ops = @ + 1,
                                     ![p].final_status = FinalStatus(pay[p].auth)]
          ELSE /\ PayRaise(p, "DatabaseError")
               /\ UNCHANGED db_txn
    /\ UNCHANGED <<db_refund, audit_logs, events, gw, ref, cache, now, st, left_at, cop, hc, enc>>
    /\ held' = Recorded(db_txn')

\* _update_transaction_status(final_status)
PayUpdateStatus(p) ==
    /\ pay[p].pc = "update_status"
    /\ \E ok \in BOOLEAN :
          IF ok
          THEN /\ db_txn' = UpdateTxn(p, [status |-> pay[p].final_status])
               /\ pay' = [pay EXCEPT ![p].pc = "publish", ![p].db_ops = @ + 1]
          ELSE /\ PayRaise(p, "DatabaseError")
               /\ UNCHANGED db_txn
    /\ left_at' = StatusLeft(p)
    /\ UNCHANGED <<db_refund, audit_logs, events, gw, ref, cache, now, st, cop, hc, enc>>
    /\ held' = Recorded(db_txn')

\* _publish_payment_event: publish_event raises once its own retries are used up
PayPublish(p) ==
    /\ pay[p].pc = "publish"
    /\ \E ok \in BOOLEAN :
          IF ok
          THEN /\ events' = events \cup {<<"payment_status_changed", p, pay[p].final_status>>}
               /\ pay' = [pay EXCEPT ![p].pc = "audit"]
          ELSE /\ PayRaise(p, "RetryError")
               /\ UNCHANGED events
    /\ UNCHANGED <<db_txn, db_refund, audit_logs, gw, ref, cache, now, st, left_at, cop, hc, enc,
                   held>>

\* _create_audit_log, then the response is built and returned
PayAudit(p) ==
    /\ pay[p].pc = "audit"
    /\ \E ok \in BOOLEAN :
          IF ok
          THEN /\ audit_logs' = audit_logs \cup
                      {<<"payment_created", "pay", p, pay[p].final_status>>}
               /\ pay' = [pay EXCEPT ![p].pc = "done", ![p].outcome = "response",
                              ![p].db_ops = @ + 1,
                              ![p].resp = pay[p].final_status,
                              ![p].resp_capture_id =
                                  ResponseCaptureId(pay[p].final_status, pay[p].capture_id)]
          ELSE /\ PayRaise(p, "DatabaseError")
               /\ UNCHANGED audit_logs
    /\ UNCHANGED <<db_txn, db_refund, events, gw, ref, cache, now, st, left_at, cop, hc, enc,
                   held>>

\* except handler: _update_transaction_status(FAILED), then re-raise; an
\* exception of the update replaces the one being handled
PayHandler(p) ==
    /\ pay[p].pc = "handler"
    /\ \E ok \in BOOLEAN :
          IF ok
          THEN /\ db_txn' = UpdateTxn(p, [status |-> CompensationStatus])
               /\ pay' = [pay EXCEPT ![p].pc = "done", ![p].outcome = "error",
                                     ![p].db_ops = @ + 1,
                                     ![p].before = db_txn[p].status,
                                     ![p].compensated = "yes"]
          ELSE /\ UNCHANGED db_txn
               /\ pay' = [pay EXCEPT ![p].pc = "done", ![p].outcome = "error",
                                     ![p].db_ops = @ + 1,
                                     ![p].before = db_txn[p].status,
                                     ![p].compensated = "no",
                                     ![p].err = "DatabaseError"]
    /\ left_at' = StatusLeft(p)
    /\ UNCHANGED <<db_refund, audit_logs, events, gw, ref, cache, now, st, cop, hc, enc>>
    /\ held' = Recorded(db_txn')

----------------------------------------------------------------------------
\* pure pieces of process_refund

\* requested: RefundRequest.amount (0 for None) as read when refund_amount is
\* determined; amount, currency: refund_amount and original_transaction["currency"]
\* body: RefundRequest.amount of the parsed body, until process_refund is entered
IdleRefund == [pc |-> "idle", body |-> NoDecimal, txn |-> 0, requested |-> 0, amount |-> 0,
               currency |-> "none", failed_at |-> "none",
               read |-> "unset",
               exceeds |-> FALSE, result |-> "unset", external_refund_id |-> "null",
               final_status |-> "unset", before |-> "unset",
               compensated |-> "unset", raised |-> "none", err |-> "none",
               outcome |-> "none", resp |-> "none", resp_processed_at |-> FALSE,
               resp_amount |-> 0, resp_currency |-> "none"]

\* (mutant) the request amount is ignored: always the full amount
ResolveRefundAmountFull(requested, original) == original

\* refund_amount = refund_request.amount or original_transaction["amount"]
ResolveRefundAmount(requested, original) == IF requested # 0 THEN requested ELSE original

\* if refund_amount > original_transaction["amount"]: raise
RefundAmountRejected(amount, original) == amount > original

\* original_transaction["status"] != "captured": raise
RefundableStatus(status) == status = "captured"

\* (mutant) whatever the gateway returns, the refund is completed
RefundFinalStatusCompleted(result) == "completed"

\* final_status of process_refund from refund_result.get("status")
RefundFinalStatus(result) == IF result = "refunded" THEN "completed" ELSE "failed"

\* (mutant) the except handler of process_refund writes cancelled
RefundCompensationStatusCancelled == "cancelled"

\* status the except handler of process_refund writes
RefundCompensationStatus == "failed"

\* _update_refund_status: UPDATE refunds SET status, external_refund_id,
\* processed_at = CASE WHEN status = 'completed' ... ; no row, no effect
UpdateRefund(r, status, external) ==
    IF db_refund[r].present
    THEN [db_refund EXCEPT ![r].status = status,
                           ![r].external_refund_id = external,
                           ![r].processed_at = IF status = "completed" THEN TRUE ELSE @]
    ELSE db_refund

\* a step of process_refund raises: control goes to the except handler
RefRaise(r, kind) ==
    ref' = [ref EXCEPT ![r].pc = "handler", ![r].raised = kind, ![r].err = kind,
                       ![r].failed_at = ref[r].pc]

\* sum of the amounts of the completed refunds of transaction t
RECURSIVE SumCompleted(_, _)
SumCompleted(t, rs) ==
    IF rs = {} THEN 0
    ELSE LET r == CHOOSE x \in rs : TRUE
         IN (IF db_refund[r].present /\ db_refund[r].txn = t
                  /\ db_refund[r].status = "completed"
             THEN db_refund[r].amount ELSE 0) + SumCompleted(t, rs \ {r})

----------------------------------------------------------------------------
\* process_refund, one action per step

\* the route's body is parsed into a RefundRequest: a body whose amount is
\* given and fails validation is refused and process_refund is not called
RefRequest(r) ==
    /\ ref[r].pc = "idle"
    /\ \E d \in RefundBodies :
          IF ~d.given \/ ValidAmount(d)
          THEN ref' = [ref EXCEPT ![r].pc = "accepted", ![r].body = d]
          ELSE ref' = [ref EXCEPT ![r].pc = "rejected", ![r].body = d,
                                  ![r].err = "ValidationError"]
    /\ UNCHANGED <<db_txn, db_refund, audit_logs, events, gw, pay, cache, now, st, left_at, cop,
                   hc, enc, held>>

\* entry: refund_id generated, _get_transaction, the two checks, the amount
RefGetTransaction(r) ==
    /\ ref[r].pc = "accepted"
    /\ \E t \in TxnIds, ok \in BOOLEAN :
          LET row == db_txn[t]
              requested == IF ref[r].body.given THEN MinorUnits(ref[r].body) ELSE 0
              amount == ResolveRefundAmount(requested, row.amount)
          IN IF ~ok
             THEN ref' = [ref EXCEPT ![r].pc = "handler", ![r].txn = t, ![r].body = NoDecimal,
                                     ![r].failed_at = "get_transaction",
                                     ![r].raised = "DatabaseError",
                                     ![r].err = "DatabaseError"]
             ELSE IF ~row.present
             THEN ref' = [ref EXCEPT ![r].pc = "handler", ![r].txn = t, ![r].body = NoDecimal,
                                     ![r].failed_at = "get_transaction",
                                     ![r].read = "absent",
                                     ![r].raised = "ValueError", ![r].err = "ValueError"]
             ELSE IF ~RefundableStatus(row.status)
             THEN ref' = [ref EXCEPT ![r].pc = "handler", ![r].txn = t, ![r].body = NoDecimal,
                                     ![r].failed_at = "get_transaction",
                                     ![r].read = row.status,
                                     ![r].raised = "ValueError", ![r].err = "ValueError"]
             ELSE IF RefundAmountRejected(amount, row.amount)
             THEN ref' = [ref EXCEPT ![r].pc = "handler", ![r].txn = t, ![r].body = NoDecimal,
                                     ![r].requested = requested,
                                     ![r].failed_at = "get_transaction",
                                     ![r].read = row.status, ![r].exceeds = TRUE,
                                     ![r].raised = "ValueError", ![r].err = "ValueError"]
             ELSE ref' = [ref EXCEPT ![r].pc = "create_refund", ![r].txn = t, ![r].body = NoDecimal,
                                     ![r].requested = requested,
                                     ![r].read = row.status, ![r].amount = amount,
                                     ![r].currency = row.currency]
    /\ UNCHANGED <<db_txn, db_refund, audit_logs, events, gw, pay, cache, now, st, left_at, cop,
                   hc, enc, held>>

\* _create_refund: INSERT ... status pending
RefCreateRefund(r) ==
    /\ ref[r].pc = "create_refund"
    /\ \E ok \in BOOLEAN :
          IF ok
          THEN /\ db_refund' = [db_refund EXCEPT ![r] =
                      [present |-> TRUE, txn |-> ref[r].txn, amount |-> ref[r].amount,
                       currency |-> ref[r].currency,
                       status |-> "pending", external_refund_id |-> "null",
                       processed_at |-> FALSE]]
               /\ ref' = [ref EXCEPT ![r].pc = "external_refund"]
          ELSE /\ RefRaise(r, "DatabaseError")
               /\ UNCHANGED db_refund
    /\ UNCHANGED <<db_txn, audit_logs, events, gw, pay, cache, now, st, left_at, cop, hc, enc,
                   held>>

\* _process_external_refund: one request to the gateway, no retry
RefExternalRefund(r) ==
    /\ ref[r].pc = "external_refund"
    /\ gw' = [gw EXCEPT !.refund[r] = @ + 1]
    /\ \E result \in {"refunded", "other", "raise"} :
          IF result = "raise"
          THEN RefRaise(r, "GatewayError")
          ELSE ref' = [ref EXCEPT ![r].pc = "update_status", ![r].result = result,
                                  ![r].external_refund_id = "ext",
                                  ![r].final_status = RefundFinalStatus(result)]
    /\ UNCHANGED <<db_txn, db_refund, audit_logs, events, pay, cache, now, st, left_at, cop, hc,
                   enc, held>>

\* (mutant) the status update of a refund also debits the parent transaction
RefUpdateStatusDebitsParent(r) ==
    /\ ref[r].pc = "update_status"
    /\ \E ok \in BOOLEAN :
          IF ok
          THEN /\ db_refund' = UpdateRefund(r, ref[r].final_status,
                                            ref[r].external_refund_id)
               /\ db_txn' = [db_txn EXCEPT ![ref[r].txn].amount = @ - ref[r].amount]
               /\ ref' = [ref EXCEPT ![r].pc = "publish"]
          ELSE /\ RefRaise(r, "DatabaseError")
               /\ UNCHANGED <<db_refund, db_txn>>
    /\ UNCHANGED <<audit_logs, events, gw, pay, cache, now, st, left_at, cop, hc, enc>>
    /\ held' = Recorded(db_txn')

\* _update_refund_status(final_status, refund_result.get("refund_id"))
RefUpdateStatus(r) ==
    /\ ref[r].pc = "update_status"
    /\ \E ok \in BOOLEAN :
          IF ok
          THEN /\ db_refund' = UpdateRefund(r, ref[r].final_status,
                                            ref[r].external_refund_id)
               /\ ref' = [ref EXCEPT ![r].pc = "publish"]
          ELSE /\ RefRaise(r, "DatabaseError")
               /\ UNCHANGED db_refund
    /\ UNCHANGED <<db_txn, audit_logs, events, gw, pay, cache, now, st, left_at, cop, hc, enc,
                   held>>

\* _publish_refund_event
RefPublish(r) ==
    /\ ref[r].pc = "publish"
    /\ \E ok \in BOOLEAN :
          IF ok
          THEN /\ events' = events \cup {<<"refund_status_changed", r, ref[r].final_status>>}
               /\ ref' = [ref EXCEPT ![r].pc = "audit"]
          ELSE /\ RefRaise(r, "RetryError")
               /\ UNCHANGED events
    /\ UNCHANGED <<db_txn, db_refund, audit_logs, gw, pay, cache, now, st, left_at, cop, hc, enc,
                   held>>

\* (mutant) the audit write of a refund replaces the log by its entry
RefAuditOverwrites(r) ==
    /\ ref[r].pc = "audit"
    /\ \E ok \in BOOLEAN :
          IF ok
          THEN /\ audit_logs' = {<<"refund_created", "refund", r, ref[r].final_status>>}
               /\ ref' = [ref EXCEPT ![r].pc = "done", ![r].outcome = "response",
                              ![r].resp = ref[r].final_status,
                              ![r].resp_processed_at = (ref[r].final_status = "completed"),
                              ![r].resp_amount = ref[r].amount,
                              ![r].resp_currency = ref[r].currency]
          ELSE /\ RefRaise(r, "DatabaseError")
               /\ UNCHANGED audit_logs
    /\ UNCHANGED <<db_txn, db_refund, events, gw, pay, cache, now, st, left_at, cop, hc, enc,
                   held>>

\* _create_audit_log, then the response is built and returned
RefAudit(r) ==
    /\ ref[r].pc = "audit"
    /\ \E ok \in BOOLEAN :
          IF ok
          THEN /\ audit_logs' = audit_logs \cup
                      {<<"refund_created", "refund", r, ref[r].final_status>>}
               /\ ref' = [ref EXCEPT ![r].pc = "done", ![r].outcome = "response",
                              ![r].resp = ref[r].final_status,
                              ![r].resp_processed_at = (ref[r].final_status = "completed"),
                              ![r].resp_amount = ref[r].amount,
                              ![r].resp_currency = ref[r].currency]
          ELSE /\ RefRaise(r, "DatabaseError")
               /\ UNCHANGED audit_logs
    /\ UNCHANGED <<db_txn, db_refund, events, gw, pay, cache, now, st, left_at, cop, hc, enc,
                   held>>

\* except handler: _update_refund_status(FAILED, None), then re-raise; an
\* exception of the update replaces the one being handled
RefHandler(r) ==
    /\ ref[r].pc = "handler"
    /\ \E ok \in BOOLEAN :
          IF ok
          THEN /\ db_refund' = UpdateRefund(r, RefundCompensationStatus, "null")
               /\ ref' = [ref EXCEPT ![r].pc = "done", ![r].outcome = "error",
                                     ![r].before = db_refund[r].status,
                                     ![r].compensated = "yes"]
          ELSE /\ UNCHANGED db_refund
               /\ ref' = [ref EXCEPT ![r].pc = "done", ![r].outcome = "error",
                                     ![r].before = db_refund[r].status,
                                     ![r].compensated = "no",
                                     ![r].err = "DatabaseError"]
    /\ UNCHANGED <<db_txn, audit_logs, events, gw, pay, cache, now, st, left_at, cop, hc, enc,
                   held>>

----------------------------------------------------------------------------
\* CacheService (services/cache_service.py) and the clock it reads

\* ttl=300 of the cache_service.set call in get_payment_status
StatusTtl == 300
\* settings.cache_ttl, the default_ttl of the cache
DefaultTtl == 300
\* the clock is observed once per TTL
TickSeconds == StatusTtl
MaxTime == MaxTicks * TickSeconds

\* keys: payment_status:{transaction_id}, named by the transaction id, and
\* one more key, so that there are more keys than the cache holds
CacheKeys == 1..(NumPayments + 2)

SnapshotFields == {"status", "amount", "currency", "authorization_id", "capture_id"}

\* None, where a snapshot is expected
NoSnapshot == [status |-> "none", amount |-> 0, currency |-> "none",
               authorization_id |-> "null", capture_id |-> "null"]

NoEntry == [present |-> FALSE, value |-> NoSnapshot, expires_at |-> 0,
            created_at |-> 0, accessed_at |-> 0]

\* (mutant) no entry is ever taken to be expired
ExpiredNever(entry, t) == FALSE

\* current_time > entry['expires_at']
Expired(entry, t) == t > entry.expires_at

\* (mutant) the entry expires at the moment it is written
ExpiresAtOnce(t, ttl) == t

\* 'expires_at': current_time + ttl
ExpiresAt(t, ttl) == t + ttl

\* CacheService.get, the value returned: None for a missing or expired key
CacheGetValue(c, key, t) ==
    IF c[key].present /\ ~Expired(c[key], t) THEN c[key].value ELSE NoSnapshot

\* CacheService.get, the cache it leaves: an expired entry is deleted, a live
\* one gets its access time updated
CacheAfterGet(c, key, t) ==
    IF ~c[key].present THEN c
    ELSE IF Expired(c[key], t) THEN [c EXCEPT ![key] = NoEntry]
    ELSE [c EXCEPT ![key].accessed_at = t]

CacheSize(c) == Cardinality({k \in CacheKeys : c[k].present})

\* (mutant) the most recently used entry is picked
MruKeys(c) ==
    {k \in CacheKeys : /\ c[k].present
                       /\ \A j \in CacheKeys :
                             c[j].present => c[k].accessed_at >= c[j].accessed_at}

\* keys _evict_lru can pick: the least accessed_at
LruKeys(c) ==
    {k \in CacheKeys : /\ c[k].present
                       /\ \A j \in CacheKeys :
                             c[j].present => c[k].accessed_at <= c[j].accessed_at}

\* (mutant) set never evicts
CacheAfterEvictNothing(c, key) == {c}

\* CacheService.set, the eviction it starts with: when the cache is full and
\* the key is new, one least recently used entry is deleted
CacheAfterEvict(c, key) ==
    IF CacheSize(c) >= CacheMaxSize /\ ~c[key].present /\ LruKeys(c) # {}
    THEN {[c EXCEPT ![k] = NoEntry] : k \in LruKeys(c)}
    ELSE {c}

\* CacheService.set, the entry it stores
NewEntry(value, t, ttl) ==
    [present |-> TRUE, value |-> value, expires_at |-> ExpiresAt(t, ttl),
     created_at |-> t, accessed_at |-> t]

\* time passes
Tick ==
    /\ now + TickSeconds <= MaxTime
    /\ now' = now + TickSeconds
    /\ UNCHANGED <<db_txn, db_refund, audit_logs, events, gw, pay, ref, cache, st, left_at, cop,
                   hc, enc, held>>

\* _cleanup_expired_entries, run by the background task every minute
CacheCleanup ==
    /\ \E k \in CacheKeys : cache[k].present /\ Expired(cache[k], now)
    /\ cache' = [k \in CacheKeys |->
                    IF cache[k].present /\ Expired(cache[k], now) THEN NoEntry
                    ELSE cache[k]]
    /\ UNCHANGED <<db_txn, db_refund, audit_logs, events, gw, pay, ref, now, st, left_at, cop, hc,
                   enc, held>>

----------------------------------------------------------------------------
\* a client of the CacheService calling its methods one after the other

\* values a client stores
CacheValues == {[NoSnapshot EXCEPT !.status = x] : x \in {"pending", "captured"}}

\* ttl arguments of set: 0 stands for None (no ttl given)
CacheTtls == {0, 2 * DefaultTtl}

\* ttl = ttl or self.default_ttl
EffectiveTtl(ttl) == IF ttl # 0 THEN ttl ELSE DefaultTtl

\* seq: number of calls made, modulo 2 (a new call differs from the last);
\* op, key, value, ttl: the call and its arguments; value of a get: what it
\* returned (NoSnapshot for None); found: what delete returned; size: what
\* size returned; evicted: the key _evict_lru logged as evicted (0 for none)
IdleCop == [seq |-> 0, op |-> "none", key |-> 0, value |-> NoSnapshot, ttl |-> 0,
            found |-> FALSE, size |-> 0, evicted |-> 0]

CopCall(op, key) == [IdleCop EXCEPT !.seq = 1 - cop.seq, !.op = op, !.key = key]

\* (mutant) delete always answers False
DeleteFoundNever(c, key) == FALSE

\* CacheService.delete, the value returned: key in self._cache
DeleteFound(c, key) == c[key].present

\* CacheService.get
CacheGet(k) ==
    /\ cop' = [CopCall("get", k) EXCEPT !.value = CacheGetValue(cache, k, now)]
    /\ cache' = CacheAfterGet(cache, k, now)
    /\ UNCHANGED <<db_txn, db_refund, audit_logs, events, gw, pay, ref, now, st, left_at, hc, enc,
                   held>>

\* CacheService.set
CacheSet(k) ==
    /\ \E value \in CacheValues, ttl \in CacheTtls, c \in CacheAfterEvict(cache, k) :
          LET gone == {j \in CacheKeys : cache[j].present /\ ~c[j].present}
          IN /\ cache' = [c EXCEPT ![k] = NewEntry(value, now, EffectiveTtl(ttl))]
             /\ cop' = [CopCall("set", k) EXCEPT
                            !.value = value, !.ttl = ttl,
                            !.evicted = IF gone = {} THEN 0 ELSE CHOOSE j \in gone : TRUE]
    /\ UNCHANGED <<db_txn, db_refund, audit_logs, events, gw, pay, ref, now, st, left_at, hc, enc,
                   held>>

\* CacheService.delete
CacheDelete(k) ==
    /\ cop' = [CopCall("delete", k) EXCEPT !.found = DeleteFound(cache, k)]
    /\ cache' = [cache EXCEPT ![k] = NoEntry]
    /\ UNCHANGED <<db_txn, db_refund, audit_logs, events, gw, pay, ref, now, st, left_at, hc, enc,
                   held>>

\* CacheService.clear
CacheClear ==
    /\ cop' = CopCall("clear", 0)
    /\ cache' = [k \in CacheKeys |-> NoEntry]
    /\ UNCHANGED <<db_txn, db_refund, audit_logs, events, gw, pay, ref, now, st, left_at, hc, enc,
                   held>>

\* CacheService.size
CacheSizeCall ==
    /\ cop' = [CopCall("size", 0) EXCEPT !.size = CacheSize(cache)]
    /\ UNCHANGED <<db_txn, db_refund, audit_logs, events, gw, pay, ref, cache, now, st, left_at,
                   hc, enc, held>>

----------------------------------------------------------------------------
\* get_payment_status and its route

StatusCalls == 1..NumStatus

\* called_at: time of the cache lookup; entry_at: creation time of the cache
\* entry the call read or wrote, which is also the time a response is returned
\* after a miss; done_before: the calls that had returned when this one started
IdleStatus == [pc |-> "idle", txn |-> 0, hit |-> FALSE, db_reads |-> 0,
               cache_writes |-> 0, read_status |-> "unset", resp |-> NoSnapshot,
               outcome |-> "none", err |-> "none", http |-> 0,
               called_at |-> Never, entry_at |-> Never,
               done_before |-> {}]

\* (mutant) the response leaves out the gateway's identifiers
SnapshotWithoutIds(row) ==
    [status |-> row.status, amount |-> row.amount, currency |-> row.currency,
     authorization_id |-> "null", capture_id |-> "null"]

\* PaymentStatusResponse built from the row that was read
Snapshot(row) ==
    [status |-> row.status, amount |-> row.amount, currency |-> row.currency,
     authorization_id |-> row.authorization_id, capture_id |-> row.capture_id]

\* response.dict(): the fields of the response by name
ResponseDict(resp) == [f \in SnapshotFields |-> resp[f]]

\* PaymentStatusResponse.parse_obj(cached_status)
ParseObj(d) ==
    [status |-> d["status"], amount |-> d["amount"], currency |-> d["currency"],
     authorization_id |-> d["authorization_id"], capture_id |-> d["capture_id"]]

\* (mutant) the route answers a missing transaction like a bad request
StatusRouteCodeBadRequest(err) ==
    CASE err = "none" -> 200
      [] err = "ValueError" -> 400
      [] OTHER -> 500

\* route GET /payments/{transaction_id}: status code for the outcome
StatusRouteCode(err) ==
    CASE err = "none" -> 200
      [] err = "ValueError" -> 404
      [] OTHER -> 500

StatusDone == {x \in DOMAIN st : st[x].pc = "done"}

\* entry and cache lookup; a hit is parsed and returned at once
StatusCacheGet(s) ==
    /\ st[s].pc = "idle"
    /\ \E t \in TxnIds :
          LET cached_status == CacheGetValue(cache, t, now)
          IN /\ cache' = CacheAfterGet(cache, t, now)
             /\ IF cached_status # NoSnapshot
                THEN st' = [st EXCEPT ![s].pc = "done", ![s].txn = t, ![s].hit = TRUE,
                                      ![s].called_at = now,
                                      ![s].entry_at = cache[t].created_at,
                                      ![s].resp = ParseObj(cached_status),
                                      ![s].outcome = "response",
                                      ![s].http = StatusRouteCode("none"),
                                      ![s].done_before = StatusDone]
                ELSE st' = [st EXCEPT ![s].pc = "query", ![s].txn = t,
                                      ![s].called_at = now,
                                      ![s].done_before = StatusDone]
    /\ UNCHANGED <<db_txn, db_refund, audit_logs, events, gw, pay, ref, now, left_at, cop, hc,
                   enc, held>>

\* SELECT ... FROM transactions WHERE transaction_id = %s
StatusQuery(s) ==
    /\ st[s].pc = "query"
    /\ \E ok \in BOOLEAN :
          LET row == db_txn[st[s].txn]
          IN IF ~ok
             THEN st' = [st EXCEPT ![s].pc = "done", ![s].db_reads = @ + 1,
                                   ![s].outcome = "error", ![s].err = "DatabaseError",
                                   ![s].http = StatusRouteCode("DatabaseError")]
             ELSE IF ~row.present
             THEN st' = [st EXCEPT ![s].pc = "done", ![s].db_reads = @ + 1,
                                   ![s].read_status = "absent",
                                   ![s].outcome = "error", ![s].err = "ValueError",
                                   ![s].http = StatusRouteCode("ValueError")]
             ELSE st' = [st EXCEPT ![s].pc = "cache_set", ![s].db_reads = @ + 1,
                                   ![s].read_status = row.status,
                                   ![s].resp = Snapshot(row)]
    /\ UNCHANGED <<db_txn, db_refund, audit_logs, events, gw, pay, ref, cache, now, left_at, cop,
                   hc, enc, held>>

\* cache_service.set(key, response.dict(), ttl=300), then the response is returned
StatusCacheSet(s) ==
    /\ st[s].pc = "cache_set"
    /\ \E c \in CacheAfterEvict(cache, st[s].txn) :
          cache' = [c EXCEPT ![st[s].txn] =
                       NewEntry(ResponseDict(st[s].resp), now, StatusTtl)]
    /\ st' = [st EXCEPT ![s].pc = "done", ![s].cache_writes = @ + 1,
                        ![s].entry_at = now, ![s].outcome = "response",
                        ![s].http = StatusRouteCode("none")]
    /\ UNCHANGED <<db_txn, db_refund, audit_logs, events, gw, pay, ref, now, left_at, cop, hc,
                   enc, held>>

\* route POST /payments/process: status code for the outcome
PayRouteCode(err) ==
    CASE err = "none" -> 200
      [] err = "ValueError" -> 400
      [] OTHER -> 500

\* route POST /payments/{transaction_id}/refund: status code for the outcome
RefundRouteCode(err) ==
    CASE err = "none" -> 200
      [] err = "ValueError" -> 400
      [] OTHER -> 500

----------------------------------------------------------------------------
\* route GET /health

\* what the probe of each collaborator's health_check can meet; "raise"
\* stands for a health_check that raises instead of returning
DatabaseProbes == {"row", "no_row", "error", "raise"}
BankingProbes == {"200", "other_status", "error", "raise"}
EventProbes == {"connected", "error", "raise"}

\* DatabaseManager.health_check: result is not None; an exception gives False
DatabaseHealth(probe) ==
    CASE probe = "row" -> "true" [] probe = "raise" -> "raise" [] OTHER -> "false"

\* BankingService.health_check: status_code == 200; an exception gives False
BankingHealth(probe) ==
    CASE probe = "200" -> "true" [] probe = "raise" -> "raise" [] OTHER -> "false"

\* EventService.health_check: the producer was created; an exception gives False
EventHealth(probe) ==
    CASE probe = "connected" -> "true" [] probe = "raise" -> "raise" [] OTHER -> "false"

\* try: services[x] = await x.health_check()  except Exception: services[x] = False
Reported(result) == result = "true"

\* (mutant) one healthy service is enough
OverallStatusAny(services) ==
    IF \E x \in DOMAIN services : services[x] THEN "healthy" ELSE "unhealthy"

\* "healthy" if all(services.values()) else "unhealthy"
OverallStatus(services) ==
    IF \A x \in DOMAIN services : services[x] THEN "healthy" ELSE "unhealthy"

HealthServices == {"database", "banking_service", "event_service"}

\* probe, result: what each check met and gave; services, status: the response
IdleHealth == [pc |-> "database",
               probe |-> [x \in HealthServices |-> "unset"],
               result |-> [x \in HealthServices |-> "unset"],
               services |-> [x \in HealthServices |-> FALSE],
               status |-> "none", outcome |-> "none", http |-> 0]

HealthChecked(x, probe, result, next) ==
    hc' = [hc EXCEPT !.pc = next, !.probe[x] = probe, !.result[x] = result,
                     !.services[x] = Reported(result)]

\* check database
HealthDatabase ==
    /\ hc.pc = "database"
    /\ \E probe \in DatabaseProbes :
          HealthChecked("database", probe, DatabaseHealth(probe), "banking_service")
    /\ UNCHANGED <<db_txn, db_refund, audit_logs, events, gw, pay, ref, cache, now, st, left_at,
                   cop, enc, held>>

\* check banking service
HealthBanking ==
    /\ hc.pc = "banking_service"
    /\ \E probe \in BankingProbes :
          HealthChecked("banking_service", probe, BankingHealth(probe), "event_service")
    /\ UNCHANGED <<db_txn, db_refund, audit_logs, events, gw, pay, ref, cache, now, st, left_at,
                   cop, enc, held>>

\* check event service
HealthEvent ==
    /\ hc.pc = "event_service"
    /\ \E probe \in EventProbes :
          HealthChecked("event_service", probe, EventHealth(probe), "respond")
    /\ UNCHANGED <<db_txn, db_refund, audit_logs, events, gw, pay, ref, cache, now, st, left_at,
                   cop, enc, held>>

\* overall health, HealthCheckResponse
HealthRespond ==
    /\ hc.pc = "respond"
    /\ hc' = [hc EXCEPT !.pc = "done", !.status = OverallStatus(hc.services),
                        !.outcome = "response", !.http = 200]
    /\ UNCHANGED <<db_txn, db_refund, audit_logs, events, gw, pay, ref, cache, now, st, left_at,
                   cop, enc, held>>

NextHealth == HealthDatabase \/ HealthBanking \/ HealthEvent \/ HealthRespond

----------------------------------------------------------------------------
\* EncryptionService (services/encryption_service.py).  Strings are sequences
\* of code points; bytes, tokens and base64 text are tagged tuples.

Quote == 34
Backslash == 92
LetterU == 117
Digit0 == 48
LastAscii == 127

\* CardData values: the digits of a card number, month, year, cvv (a string:
\* its leading zero counts), and names with a quote and a non-ASCII letter
CardNumbers == {<<52, 50, 50, 50, 50, 50, 50, 50, 50, 50, 50, 50, 50>>,
                <<53, 49, 48, 53, 49, 48, 53, 49, 48, 53, 49, 48, 53, 49, 48, 48>>}
Cvvs == {<<48, 49, 50>>, <<49, 50, 51, 52>>}
Names == {<<65, 32, 66>>, <<79, 34, 66>>, <<90, 111, 235>>}
Cards ==
    [card_number : CardNumbers, expiry_month : {1, 12}, expiry_year : {2024, 2050},
     cvv : Cvvs, cardholder_name : Names]
CardFields == {"card_number", "expiry_month", "expiry_year", "cvv", "cardholder_name"}
StringFields == {"card_number", "cvv", "cardholder_name"}

\* (mutant) no character is escaped
EscapeCharNever(c) == <<c>>

\* json.dumps, one character of a string (ensure_ascii)
EscapeChar(c) ==
    IF c = Quote \/ c = Backslash THEN <<Backslash, c>>
    ELSE IF c > LastAscii THEN <<Backslash, LetterU, c>>
    ELSE <<c>>

RECURSIVE EscapeAll(_)
EscapeAll(str) == IF str = <<>> THEN <<>> ELSE EscapeChar(Head(str)) \o EscapeAll(Tail(str))

\* json.dumps of a str: the literal between quotes
JsonString(str) == <<Quote>> \o EscapeAll(str) \o <<Quote>>

\* json.dumps of an int: its decimal digits
RECURSIVE JsonNumber(_)
JsonNumber(n) ==
    IF n < 10 THEN <<Digit0 + n>> ELSE JsonNumber(n \div 10) \o <<Digit0 + (n % 10)>>

\* json.dumps(card_dict): the literal of each key
JsonDumps(card) ==
    [f \in CardFields |-> IF f \in StringFields THEN JsonString(card[f])
                          ELSE JsonNumber(card[f])]

\* json.loads of a string literal, read from position i up to the closing quote
RECURSIVE Unescape(_, _)
Unescape(lit, i) ==
    IF i > Len(lit) \/ lit[i] = Quote THEN <<>>
    ELSE IF lit[i] = Backslash
         THEN IF lit[i + 1] = LetterU THEN <<lit[i + 2]>> \o Unescape(lit, i + 3)
              ELSE <<lit[i + 1]>> \o Unescape(lit, i + 2)
         ELSE <<lit[i]>> \o Unescape(lit, i + 1)

\* json.loads of a number literal
RECURSIVE ParseNumber(_)
ParseNumber(lit) ==
    IF lit = <<>> THEN 0
    ELSE ParseNumber(SubSeq(lit, 1, Len(lit) - 1)) * 10 + (lit[Len(lit)] - Digit0)

\* json.loads: a literal that opens with a quote is a str, another an int
JsonLoads(text) ==
    [f \in DOMAIN text |-> IF text[f][1] = Quote THEN Unescape(text[f], 2)
                           ELSE ParseNumber(text[f])]

\* str.encode() / bytes.decode()
StrEncode(text) == <<"bytes", text>>
BytesDecode(bytes) == bytes[2]

\* the key derived from settings.encryption_key, one per configuration
CipherKey == "derived_key"

\* Fernet.encrypt / Fernet.decrypt: a token under a key and a fresh iv opens
\* under the same key only ("InvalidToken" otherwise)
FernetEncrypt(key, iv, bytes) == <<"token", key, iv, bytes>>
FernetDecrypt(key, token) == IF token[2] = key THEN token[4] ELSE "InvalidToken"

\* base64.b64encode / base64.b64decode
B64Encode(bytes) == <<"b64", bytes>>
B64Decode(bytes) == bytes[2]

\* encrypt_card_data
EncryptCardData(card, iv) ==
    BytesDecode(StrEncode(B64Encode(FernetEncrypt(CipherKey, iv, StrEncode(JsonDumps(card))))))

\* decrypt_card_data
DecryptCardData(encrypted_data) ==
    JsonLoads(BytesDecode(FernetDecrypt(CipherKey, B64Decode(BytesDecode(
        StrEncode(encrypted_data))))))

NoCard == [card_number |-> <<>>, expiry_month |-> 0, expiry_year |-> 0,
           cvv |-> <<>>, cardholder_name |-> <<>>]
IdleEnc == [pc |-> "idle", card |-> NoCard, encrypted |-> <<>>, decrypted |-> NoCard]

\* ivs a Fernet token can be made with
Ivs == {1, 2}

\* encrypt_card_data(card_data)
EncEncrypt ==
    /\ enc.pc = "idle"
    /\ \E card \in Cards, iv \in Ivs :
          enc' = [enc EXCEPT !.pc = "encrypted", !.card = card,
                             !.encrypted = EncryptCardData(card, iv)]
    /\ UNCHANGED <<db_txn, db_refund, audit_logs, events, gw, pay, ref, cache, now, st, left_at,
                   cop, hc, held>>

\* decrypt_card_data(encrypted)
EncDecrypt ==
    /\ enc.pc = "encrypted"
    /\ enc' = [enc EXCEPT !.pc = "decrypted", !.decrypted = DecryptCardData(enc.encrypted)]
    /\ UNCHANGED <<db_txn, db_refund, audit_logs, events, gw, pay, ref, cache, now, st, left_at,
                   cop, hc, held>>

NextEncryption == EncEncrypt \/ EncDecrypt

----------------------------------------------------------------------------
Init ==
    /\ db_txn = [t \in TxnIds |-> NoTxnRow]
    /\ db_refund = [r \in RefundCalls |-> NoRefundRow]
    /\ audit_logs = {}
    /\ events = {}
    /\ gw = [authorize |-> [p \in PayCalls |-> FALSE],
             declined |-> [p \in PayCalls |-> FALSE],
             approved |-> [p \in PayCalls |-> FALSE],
             capture |-> [p \in PayCalls |-> 0],
             captured |-> [p \in PayCalls |-> FALSE],
             refund |-> [r \in RefundCalls |-> 0]]
    /\ pay = [p \in PayCalls |-> IdlePay]
    /\ ref = [r \in RefundCalls |-> IdleRefund]
    /\ cache = [k \in CacheKeys |-> NoEntry]
    /\ now = 0
    /\ st = [s \in StatusCalls |-> IdleStatus]
    /\ left_at = [t \in TxnIds |-> [x \in PaymentStatus |-> Never]]
    /\ cop = IdleCop
    /\ hc = IdleHealth
    /\ enc = IdleEnc
    /\ held = [t \in TxnIds |-> IF db_txn[t].present THEN {db_txn[t]} ELSE {}]

\* the steps of the process_payment tasks
NextPayment ==
    \/ \E p \in PayCalls : PayRequest(p)
    \/ \E p \in PayCalls : PayStart(p)
    \/ \E p \in PayCalls : PayEncrypt(p)
    \/ \E p \in PayCalls : PayCreateTransaction(p)
    \/ \E p \in PayCalls : PayAuthorize(p)
    \/ \E p \in PayCalls : PayUpdateAuthorization(p)
    \/ \E p \in PayCalls : PayCapture(p)
    \/ \E p \in PayCalls : PayUpdateCapture(p)
    \/ \E p \in PayCalls : PayUpdateStatus(p)
    \/ \E p \in PayCalls : PayPublish(p)
    \/ \E p \in PayCalls : PayAudit(p)
    \/ \E p \in PayCalls : PayHandler(p)

\* the steps of the process_refund tasks
NextRefund ==
    \/ \E r \in RefundCalls : RefRequest(r)
    \/ \E r \in RefundCalls : RefGetTransaction(r)
    \/ \E r \in RefundCalls : RefCreateRefund(r)
    \/ \E r \in RefundCalls : RefExternalRefund(r)
    \/ \E r \in RefundCalls : RefUpdateStatus(r)
    \/ \E r \in RefundCalls : RefPublish(r)
    \/ \E r \in RefundCalls : RefAudit(r)
    \/ \E r \in RefundCalls : RefHandler(r)

Next == NextPayment \/ NextRefund

\* payments and refunds running concurrently
Spec == Init /\ [][Next]_vars

\* the steps of one process_payment call, once the route has made it
PayStep(p) ==
    \/ PayStart(p) \/ PayEncrypt(p) \/ PayCreateTransaction(p) \/ PayAuthorize(p)
    \/ PayUpdateAuthorization(p) \/ PayCapture(p) \/ PayUpdateCapture(p)
    \/ PayUpdateStatus(p) \/ PayPublish(p) \/ PayAudit(p) \/ PayHandler(p)

\* the steps of one process_refund call, once the route has made it
RefStep(r) ==
    \/ RefGetTransaction(r) \/ RefCreateRefund(r) \/ RefExternalRefund(r)
    \/ RefUpdateStatus(r) \/ RefPublish(r) \/ RefAudit(r) \/ RefHandler(r)

\* the refund calls of the terminating runs: one for each payment call
ResumedRefunds == 1..NumPayments

\* every collaborator call returns or fails, and the event loop resumes the
\* task that awaited it: a call that can take a step eventually takes one,
\* with whichever outcome; requests are not bound to arrive
CallsResume ==
    /\ \A p \in PayCalls : WF_vars(PayStep(p))
    /\ \A r \in ResumedRefunds : WF_vars(RefStep(r))

NextResumed ==
    \/ \E p \in PayCalls : PayRequest(p)
    \/ \E p \in PayCalls : PayStep(p)
    \/ \E r \in ResumedRefunds : RefRequest(r)
    \/ \E r \in ResumedRefunds : RefStep(r)

\* payments and refunds whose awaited calls all come back
SpecResumed == Init /\ [][NextResumed]_vars /\ CallsResume

\* the process_payment tasks alone (no process_refund call is made)
SpecPayment == Init /\ [][NextPayment]_vars

\* the transaction id of a row that an earlier process_payment call left
StoredId == NumPayments + 1

\* the rows a finished call for the least amount in USD can have left
StoredRows ==
    {[present |-> TRUE, status |-> status, amount |-> 1, currency |-> "USD",
      authorization_id |-> IF status = "captured" THEN "auth" ELSE "null",
      capture_id |-> IF status = "captured" THEN "cap" ELSE "null"] :
        status \in {"captured", "failed"}}

\* the service starts on a table transactions that already holds the row of
\* an earlier call
InitStored ==
    /\ \E row \in StoredRows :
          db_txn = [t \in TxnIds |-> IF t = StoredId THEN row ELSE NoTxnRow]
    /\ db_refund = [r \in RefundCalls |-> NoRefundRow]
    /\ audit_logs = {}
    /\ events = {}
    /\ gw = [authorize |-> [p \in PayCalls |-> FALSE],
             declined |-> [p \in PayCalls |-> FALSE],
             approved |-> [p \in PayCalls |-> FALSE],
             capture |-> [p \in PayCalls |-> 0],
             captured |-> [p \in PayCalls |-> FALSE],
             refund |-> [r \in RefundCalls |-> 0]]
    /\ pay = [p \in PayCalls |-> IdlePay]
    /\ ref = [r \in RefundCalls |-> IdleRefund]
    /\ cache = [k \in CacheKeys |-> NoEntry]
    /\ now = 0
    /\ st = [s \in StatusCalls |-> IdleStatus]
    /\ left_at = [t \in TxnIds |-> [x \in PaymentStatus |-> Never]]
    /\ cop = IdleCop
    /\ hc = IdleHealth
    /\ enc = IdleEnc
    /\ held = [t \in TxnIds |-> IF db_txn[t].present THEN {db_txn[t]} ELSE {}]

\* process_payment calls made after an earlier call has left its row
SpecPaymentStored == InitStored /\ [][NextPayment]_vars

\* the steps of the get_payment_status tasks
NextStatus ==
    \/ \E s \in DOMAIN st : StatusCacheGet(s)
    \/ \E s \in DOMAIN st : StatusQuery(s)
    \/ \E s \in DOMAIN st : StatusCacheSet(s)

\* status reads running concurrently with payments, the clock and the
\* background cleanup of the cache
SpecStatus == Init /\ [][NextPayment \/ NextStatus \/ Tick \/ CacheCleanup]_vars

\* one more get_payment_status task than SpecStatus runs: a reader whose cache
\* write can fall between two successive calls
OverlappingCalls == 1..(NumStatus + 1)

InitOverlapping ==
    /\ db_txn = [t \in TxnIds |-> NoTxnRow]
    /\ db_refund = [r \in RefundCalls |-> NoRefundRow]
    /\ audit_logs = {}
    /\ events = {}
    /\ gw = [authorize |-> [p \in PayCalls |-> FALSE],
             declined |-> [p \in PayCalls |-> FALSE],
             approved |-> [p \in PayCalls |-> FALSE],
             capture |-> [p \in PayCalls |-> 0],
             captured |-> [p \in PayCalls |-> FALSE],
             refund |-> [r \in RefundCalls |-> 0]]
    /\ pay = [p \in PayCalls |-> IdlePay]
    /\ ref = [r \in RefundCalls |-> IdleRefund]
    /\ cache = [k \in CacheKeys |-> NoEntry]
    /\ now = 0
    /\ st = [s \in OverlappingCalls |-> IdleStatus]
    /\ left_at = [t \in TxnIds |-> [x \in PaymentStatus |-> Never]]
    /\ cop = IdleCop
    /\ hc = IdleHealth
    /\ enc = IdleEnc
    /\ held = [t \in TxnIds |-> IF db_txn[t].present THEN {db_txn[t]} ELSE {}]

\* status reads overlapping each other and a payment, within the lifetime of
\* the cache entries they write
SpecStatusOverlapping == InitOverlapping /\ [][NextPayment \/ NextStatus]_vars

\* the calls of a client of the CacheService
NextCache ==
    \/ \E k \in CacheKeys : CacheGet(k)
    \/ \E k \in CacheKeys : CacheSet(k)
    \/ \E k \in CacheKeys : CacheDelete(k)
    \/ CacheClear
    \/ CacheSizeCall

\* the CacheService under the calls of a client, the clock and the
\* background cleanup
SpecCache == Init /\ [][NextCache \/ Tick \/ CacheCleanup]_vars

\* a card encrypted, then decrypted, by one EncryptionService
SpecEncryption == Init /\ [][NextEncryption]_vars

\* one request to GET /health
SpecHealth == Init /\ [][NextHealth]_vars

----------------------------------------------------------------------------
\* Transaction state machine of the specification, section 4.3
AllowedTransitions ==
    {<<"pending", "authorized">>, <<"pending", "failed">>,
     <<"authorized", "captured">>, <<"authorized", "failed">>}

TerminalStatuses == {"captured", "failed"}

\* C1: every change of a transaction's persisted status is pending->authorized,
\* pending->failed, authorized->captured or authorized->failed.
C1_OnlyStateMachineTransitions ==
    [][\A t \in PayCalls :
          (db_txn[t].present /\ db_txn'[t].status # db_txn[t].status)
              => <<db_txn[t].status, db_txn'[t].status>> \in AllowedTransitions]_vars

\* C2: once a transaction's persisted status is captured or failed, no step
\* of any operation writes a different status for it.
C2_TerminalStatusNeverRewritten ==
    [][\A t \in PayCalls :
          (db_txn[t].present /\ db_txn[t].status \in TerminalStatuses)
              => db_txn'[t].status = db_txn[t].status]_vars

\* C3: a call whose authorization the gateway approved, whose capture
\* succeeded and in which no collaborator failed returns status captured with
\* non-null authorization and capture identifiers, and the persisted status
\* (and identifiers) equal the returned ones.
C3_ApprovedAndCapturedReturnsCaptured ==
    \A p \in PayCalls :
        (pay[p].pc = "done" /\ gw.approved[p] /\ gw.captured[p] /\ pay[p].raised = "none")
            => /\ pay[p].outcome = "response"
               /\ pay[p].resp = "captured"
               /\ pay[p].authorization_id # "null"
               /\ pay[p].resp_capture_id # "null"
               /\ db_txn[p].present
               /\ db_txn[p].status = pay[p].resp
               /\ db_txn[p].authorization_id = pay[p].authorization_id
               /\ db_txn[p].capture_id = pay[p].resp_capture_id

C3_Witness ==
    \E p \in PayCalls :
        /\ pay[p].pc = "done" /\ pay[p].outcome = "response"
        /\ gw.approved[p] /\ gw.captured[p]
        /\ pay[p].resp = "captured" /\ db_txn[p].status = "captured"

C5_CaptureAtMostOnceAfterApproval ==
    \A p \in PayCalls :
        /\ gw.capture[p] <= 1
        /\ gw.capture[p] > 0 => gw.approved[p]

C5_Witness ==
    \E p \in PayCalls : gw.capture[p] = 1 /\ gw.approved[p] /\ pay[p].pc = "done"

\* C6: for every transaction the amounts of its completed refunds sum to at
\* most the transaction's amount.
C6_CompletedRefundsWithinAmount ==
    \A t \in PayCalls :
        db_txn[t].present => SumCompleted(t, RefundCalls) <= db_txn[t].amount

\* C7: every change of a refund's persisted status is pending->completed or
\* pending->failed; a completed or failed refund never changes status.
C7_RefundStatusOnlyLeavesPending ==
    [][\A r \in RefundCalls :
          (db_refund[r].present /\ db_refund'[r].status # db_refund[r].status)
              => /\ db_refund[r].status = "pending"
                 /\ db_refund'[r].status \in {"completed", "failed"}]_vars

\* C8: a process_refund call that read the transaction with a status other
\* than captured fails with the precondition error (ValueError), no Refund
\* row exists for it, and the gateway refund operation was not called.
C8_NotCapturedRejected ==
    \A r \in RefundCalls :
        (ref[r].pc = "done" /\ ref[r].read \in PaymentStatus \ {"captured"})
            => /\ ref[r].outcome = "error"
               /\ ref[r].err = "ValueError"
               /\ ~db_refund[r].present
               /\ gw.refund[r] = 0

\* C9: a process_refund call whose resolved amount exceeds the transaction's
\* amount fails with the validation error (ValueError), with no gateway
\* refund call and no Refund row inserted.
C9_ExcessAmountRejected ==
    \A r \in RefundCalls :
        (ref[r].pc = "done" /\ ref[r].exceeds)
            => /\ ref[r].outcome = "error"
               /\ ref[r].err = "ValueError"
               /\ ~db_refund[r].present
               /\ gw.refund[r] = 0

C11_InvalidMerchantTouchesNothing ==
    \A p \in PayCalls :
        (pay[p].pc = "done" /\ pay[p].failed_at = "validate_merchant")
            => /\ pay[p].outcome = "error"
               /\ pay[p].err = "ValueError"
               /\ pay[p].db_ops = 0
               /\ ~db_txn[p].present
               /\ ~gw.authorize[p]
               /\ gw.capture[p] = 0
               /\ \A e \in events : e[2] # p
               /\ \A a \in audit_logs : ~(a[2] = "pay" /\ a[3] = p)

\* C12 as stated: within one process_payment call the gateway authorize
\* endpoint is requested at most 3 times, whatever transport failures and
\* timeouts occur (requests counts the failed requests of the call, so a
\* value above 3 means a fourth request was sent and failed).
C12_AtMostThreeAuthorizeRequests ==
    \A p \in PayCalls : pay[p].requests <= 3

\* C13: once the gateway has answered an authorize request of a call with a
\* decline (402), no further authorize request is sent for that call, and the
\* orchestrator holds the decline as a normal result with status declined:
\* the authorize step did not raise.
C13_DeclineNotRetried ==
    \A p \in PayCalls :
        gw.declined[p]
            => /\ pay[p].pc # "authorize"
               /\ pay[p].requests = 0
               /\ pay[p].auth = "declined"
               /\ pay[p].failed_at # "authorize"

C13_Witness ==
    \E p \in PayCalls :
        /\ gw.declined[p] /\ pay[p].auth = "declined"
        /\ pay[p].pc = "update_authorization" /\ pay[p].raised = "none"

\* C14: in every execution of process_payment the first authorize request is
\* sent with the row already inserted in pending; capture is called with the
\* authorization outcome already persisted; captured is persisted only with
\* a successful capture answer received; the event is published with the
\* final status already persisted; the audit entry is appended with the
\* event already published.
C14_SideEffectOrder ==
    [][\A p \in PayCalls :
          /\ (~gw.authorize[p] /\ gw'.authorize[p])
                => db_txn[p].present /\ db_txn[p].status = "pending"
          /\ gw'.capture[p] > gw.capture[p]
                => /\ db_txn[p].status = "authorized"
                   /\ db_txn[p].authorization_id = pay[p].authorization_id
          /\ (db_txn'[p].status = "captured" /\ db_txn[p].status # "captured")
                => gw.captured[p]
          /\ \A e \in events' \ events :
                e[2] = p => db_txn[p].present /\ db_txn[p].status = e[3]
          /\ \A a \in audit_logs' \ audit_logs :
                (a[2] = "pay" /\ a[3] = p)
                    => <<"payment_status_changed", p, a[4]>> \in events]_vars

C14_Witness ==
    \E p \in PayCalls :
        /\ pay[p].pc = "done" /\ pay[p].db_ops = 5 /\ gw.capture[p] = 1
        /\ <<"payment_status_changed", p, "captured">> \in events
        /\ <<"payment_created", "pay", p, "captured">> \in audit_logs

\* two get_payment_status calls on one transaction, s2 made after s1 returned,
\* with no other call on that transaction between or across them
Consecutive(s1, s2) ==
    /\ s1 # s2
    /\ st[s1].pc = "done" /\ st[s2].pc = "done"
    /\ st[s1].txn = st[s2].txn
    /\ s1 \in st[s2].done_before
    /\ \A s3 \in StatusCalls \ {s1, s2} :
          (st[s3].pc # "idle" /\ st[s3].txn = st[s1].txn)
              => s3 \in st[s1].done_before \/ s2 \in st[s3].done_before

\* C15: of two consecutive get_payment_status calls on a transaction, the
\* first returning a snapshot and the second made no later than the TTL
\* after the cache entry of the first was written, the second returns the
\* same snapshot and reads nothing from the persistence collaborator.
C15_SecondReadServedFromCache ==
    \A s1, s2 \in StatusCalls :
        (/\ Consecutive(s1, s2)
         /\ st[s1].outcome = "response"
         /\ st[s2].called_at <= st[s1].entry_at + StatusTtl)
            => /\ st[s2].outcome = "response"
               /\ st[s2].resp = st[s1].resp
               /\ st[s2].db_reads = 0

C15_Witness ==
    \E s1, s2 \in StatusCalls :
        /\ Consecutive(s1, s2)
        /\ st[s1].outcome = "response" /\ st[s1].db_reads = 1
        /\ st[s2].called_at = st[s1].entry_at + StatusTtl
        /\ st[s2].hit /\ st[s2].resp = st[s1].resp
        /\ db_txn[st[s2].txn].status # st[s2].resp.status

\* status x of transaction t was the persisted status at some moment not
\* before time m (x being a status the row has held)
HeldSince(t, x, m) == left_at[t][x] = Never \/ left_at[t][x] >= m

\* C16 as stated: the status of every snapshot get_payment_status returned is
\* the persisted status at the call's persistence read or, served from the
\* cache, was the persisted status at some moment at most the TTL before the
\* call returned.
C16_BoundedStaleness ==
    \A s \in StatusCalls :
        (st[s].pc = "done" /\ st[s].outcome = "response")
            => IF st[s].hit
               THEN HeldSince(st[s].txn, st[s].resp.status, st[s].called_at - StatusTtl)
               ELSE st[s].resp.status = st[s].read_status

\* C17: a get_payment_status call whose lookup found no cache entry and whose
\* persistence read found no row fails with the not-found error (ValueError),
\* has written nothing to the cache, and the route answers 404.
C17_UnknownIdNotFound ==
    \A s \in StatusCalls :
        (st[s].pc = "done" /\ st[s].read_status = "absent")
            => /\ st[s].outcome = "error"
               /\ st[s].err = "ValueError"
               /\ st[s].http = 404
               /\ st[s].cache_writes = 0
               /\ ~st[s].hit

C17_Witness ==
    \E s \in StatusCalls :
        /\ st[s].pc = "done" /\ st[s].read_status = "absent"
        /\ st[s].http = 404 /\ st[s].db_reads = 1
        /\ ~cache[st[s].txn].present

\* C18: no step changes the amount or the currency of an existing
\* transaction row, and no step of process_refund or get_payment_status
\* changes the row at all (so a completed partial refund leaves the parent's
\* amount and status as they were).
C18_AmountAndCurrencyImmutable ==
    [][\A t \in TxnIds :
          db_txn[t].present
              => /\ db_txn'[t].present
                 /\ db_txn'[t].amount = db_txn[t].amount
                 /\ db_txn'[t].currency = db_txn[t].currency
                 /\ (ref' # ref \/ db_refund' # db_refund \/ st' # st)
                        => db_txn'[t] = db_txn[t]]_vars

C18_Witness ==
    \E r \in RefundCalls :
        /\ db_refund[r].present /\ db_refund[r].status = "completed"
        /\ ref[r].pc = "done" /\ ref[r].outcome = "response"
        /\ db_refund[r].amount < db_txn[ref[r].txn].amount
        /\ db_txn[ref[r].txn].amount = pay[ref[r].txn].amount
        /\ db_txn[ref[r].txn].currency = pay[ref[r].txn].currency
        /\ db_txn[ref[r].txn].status = "captured"

C20_PublishFailureIsNotAWorkflowFailure ==
    /\ \A p \in PayCalls :
          (pay[p].pc = "done" /\ pay[p].failed_at = "publish")
              => /\ pay[p].outcome = "response"
                 /\ db_txn[p].status = pay[p].final_status
    /\ \A r \in RefundCalls :
          (ref[r].pc = "done" /\ ref[r].failed_at = "publish")
              => /\ ref[r].outcome = "response"
                 /\ db_refund[r].status = ref[r].final_status

\* C21 as stated: every failure of process_payment after validation (the
\* encryption, persistence, gateway, event and audit steps) reaches the caller
\* as a PaymentProcessingError, not as the error kind of the collaborator.
C21_FailureSurfacesAsPaymentProcessingError ==
    \A p \in PayCalls :
        (pay[p].pc = "done" /\ pay[p].outcome = "error"
              /\ pay[p].failed_at \notin {"none", "validate_merchant"})
            => pay[p].err = "PaymentProcessingError"

\* C22 as stated: when every attempt of the retry budget of the authorize
\* step has failed on a timeout, the step fails with ExternalServiceError.
C22_ExhaustedAuthorizeRaisesExternalServiceError ==
    \A p \in PayCalls :
        pay[p].failed_at = "authorize" => pay[p].raised = "ExternalServiceError"

\* the call has got past its INSERT (_create_transaction returned)
PastInsert(p) ==
    /\ pay[p].pc \notin {"idle", "accepted", "rejected", "encrypt", "create_transaction"}
    /\ pay[p].failed_at \notin {"validate_merchant", "encrypt", "create_transaction"}

C24_RefundAmountResolution ==
    \A r \in RefundCalls :
        LET parent == db_txn[ref[r].txn]
            expected == IF ref[r].requested # 0 THEN ref[r].requested ELSE parent.amount
        IN /\ db_refund[r].present
                => /\ db_refund[r].amount = expected
                   /\ db_refund[r].currency = parent.currency
                   /\ db_refund[r].txn = ref[r].txn
           /\ (ref[r].pc = "done" /\ ref[r].outcome = "response")
                => /\ db_refund[r].present
                   /\ ref[r].resp_amount = expected
                   /\ ref[r].resp_currency = parent.currency

\* one call returned a partial refund it was asked for, another the full
\* amount because no amount was given
C24_Witness ==
    \E r1, r2 \in RefundCalls :
        /\ ref[r1].pc = "done" /\ ref[r1].outcome = "response"
        /\ ref[r1].requested # 0 /\ ref[r1].resp_amount = ref[r1].requested
        /\ ref[r1].requested < db_txn[ref[r1].txn].amount
        /\ ref[r2].pc = "done" /\ ref[r2].outcome = "response"
        /\ ref[r2].requested = 0 /\ ref[r2].resp_amount = db_txn[ref[r2].txn].amount
        /\ db_refund[r2].amount = db_txn[ref[r2].txn].amount
        /\ db_refund[r2].currency = db_txn[ref[r2].txn].currency

\* C25: the Refund status is completed exactly when the gateway returned
\* refunded and failed for every other returned outcome; processed_at is set
\* exactly when the status is completed, in the row and in the response; the
\* returned status is the persisted status.
C25_RefundOutcome ==
    \A r \in RefundCalls :
        /\ ref[r].pc \in {"publish", "audit"}
              => /\ db_refund[r].status = "completed" <=> ref[r].result = "refunded"
                 /\ db_refund[r].status = "failed" <=> ref[r].result # "refunded"
                 /\ db_refund[r].processed_at <=> db_refund[r].status = "completed"
        /\ (ref[r].pc = "done" /\ ref[r].outcome = "response")
              => /\ ref[r].resp = "completed" <=> ref[r].result = "refunded"
                 /\ ref[r].resp = "failed" <=> ref[r].result # "refunded"
                 /\ ref[r].resp_processed_at <=> ref[r].resp = "completed"
                 /\ db_refund[r].status = ref[r].resp
                 /\ db_refund[r].processed_at <=> ref[r].resp_processed_at

\* one call returned completed, another failed
C25_Witness ==
    \E r1, r2 \in RefundCalls :
        /\ ref[r1].pc = "done" /\ ref[r1].outcome = "response"
        /\ ref[r1].result = "refunded" /\ ref[r1].resp = "completed"
        /\ db_refund[r1].processed_at
        /\ ref[r2].pc = "done" /\ ref[r2].outcome = "response"
        /\ ref[r2].result = "other" /\ ref[r2].resp = "failed"
        /\ ~db_refund[r2].processed_at

\* C26 as stated: each route answers a validation failure with 400, a
\* transaction that is not found with 404 and any other failure with 500; a
\* refund against a transaction that does not exist is answered 404.
C26_StatusCodeMapping ==
    /\ \A p \in PayCalls :
          (pay[p].pc = "done" /\ pay[p].outcome = "error")
              => PayRouteCode(pay[p].err) =
                     IF pay[p].failed_at = "validate_merchant" THEN 400 ELSE 500
    /\ \A r \in RefundCalls :
          (ref[r].pc = "done" /\ ref[r].outcome = "error")
              => RefundRouteCode(ref[r].err) =
                     IF ref[r].raised = "ValueError" /\ ref[r].read = "absent" THEN 404
                     ELSE IF ref[r].raised = "ValueError" THEN 400
                     ELSE 500
    /\ \A s \in StatusCalls :
          (st[s].pc = "done" /\ st[s].outcome = "error")
              => st[s].http = IF st[s].read_status = "absent" THEN 404 ELSE 500

\* C27: after any sequence of get, set, delete, clear and expiry sweeps the
\* cache holds at most max_size entries.
C27_CacheBound == Cardinality({k \in CacheKeys : cache[k].present}) <= CacheMaxSize

\* a set has found the cache full and evicted, and the cache is full again
C27_Witness ==
    /\ cop.op = "set" /\ cop.evicted # 0
    /\ Cardinality({k \in CacheKeys : cache[k].present}) = CacheMaxSize

\* a step is a call of the client: its sequence number changes
CopStep(op) == cop'.seq # cop.seq /\ cop'.op = op

\* C28: a set of a new key into a cache that holds max_size entries removes
\* exactly one entry, one whose last access (the latest of its set and its
\* successful gets) is the oldest among all entries; a set that overwrites a
\* present key, or that finds room, removes nothing.  The last access of an
\* entry is its accessed_at: written by the set that stores the entry and by
\* every get that returns its value, and by nothing else.
C28_LruEviction ==
    [][/\ CopStep("set") =>
            LET k == cop'.key
                gone == {j \in CacheKeys \ {k} : cache[j].present /\ ~cache'[j].present}
                full == Cardinality({j \in CacheKeys : cache[j].present}) >= CacheMaxSize
            IN /\ cache'[k].present /\ cache'[k].accessed_at = now
               /\ \A j \in CacheKeys \ {k} : cache'[j].present => cache'[j] = cache[j]
               /\ (full /\ ~cache[k].present)
                     => /\ Cardinality(gone) = 1
                        /\ \A j \in gone : \A i \in CacheKeys :
                               cache[i].present
                                   => cache[j].accessed_at <= cache[i].accessed_at
                        /\ cop'.evicted \in gone
               /\ (~full \/ cache[k].present) => (gone = {} /\ cop'.evicted = 0)
       /\ CopStep("get") =>
            \A j \in CacheKeys :
                cache'[j].present
                    => cache'[j].accessed_at =
                          IF j = cop'.key /\ cop'.value # NoSnapshot THEN now
                          ELSE cache[j].accessed_at
       /\ ~(CopStep("set") \/ CopStep("get")) =>
            \A j \in CacheKeys :
                cache'[j].present
                    => cache[j].present /\ cache'[j].accessed_at = cache[j].accessed_at
      ]_vars

\* a set has evicted an entry that was stored after the entries it spared:
\* a get had refreshed the older entry
C28_Witness ==
    /\ cop.op = "set" /\ cop.evicted # 0
    /\ \E j \in CacheKeys \ {cop.key} :
          /\ cache[j].present
          /\ cache[j].created_at = 0
          /\ cache[j].accessed_at > cache[j].created_at
          /\ cache[cop.key].created_at > cache[j].accessed_at

\* C29: get never returns a value whose TTL has elapsed: a value it returns
\* is that of an entry stored at most ttl seconds before (the default ttl when
\* none was given); a get issued after the expiry time of the entry returns
\* absent and removes the entry; the sweep removes exactly the expired entries
\* and leaves every other entry as it is.
C29_ExpiryRespected ==
    [][/\ CopStep("set") =>
            cache'[cop'.key].expires_at =
                now + (IF cop'.ttl # 0 THEN cop'.ttl ELSE DefaultTtl)
       /\ ~CopStep("set") =>
            \A k \in CacheKeys :
                cache'[k].present
                    => cache[k].present /\ cache'[k].expires_at = cache[k].expires_at
       /\ CopStep("get") =>
            LET k == cop'.key
            IN /\ cop'.value # NoSnapshot
                     => /\ cache[k].present
                        /\ now <= cache[k].expires_at
                        /\ cop'.value = cache[k].value
               /\ (cache[k].present /\ now > cache[k].expires_at)
                     => /\ cop'.value = NoSnapshot
                        /\ ~cache'[k].present
       /\ (cop' = cop /\ now' = now /\ cache' # cache) =>
            \A k \in CacheKeys :
                cache'[k] = IF cache[k].present /\ now > cache[k].expires_at
                            THEN NoEntry ELSE cache[k]
      ]_vars

\* a get has found an entry past its expiry time, returned absent and
\* removed it, while an unexpired entry is still there
C29_Witness ==
    /\ cop.op = "get" /\ cop.value = NoSnapshot
    /\ ~cache[cop.key].present
    /\ now = 2 * DefaultTtl
    /\ \E j \in CacheKeys : cache[j].present /\ cache[j].created_at = 0
                            /\ cache[j].expires_at = now

\* C30: a get that follows a set of the key, with no expiry, eviction or
\* delete of the entry in between, returns the value set; delete returns true
\* exactly when the key was present, and the key is absent afterwards; after
\* clear the size is 0 and every key is absent; a key that was never set is
\* absent, and a get of an absent key returns absent.
C30_CacheLaws ==
    [][/\ CopStep("set") =>
            /\ cache'[cop'.key].present
            /\ cache'[cop'.key].value = cop'.value
       /\ \A k \in CacheKeys :
            (cache[k].present /\ ~(CopStep("set") /\ cop'.key = k))
                => \/ cache'[k].present /\ cache'[k].value = cache[k].value
                   \/ ~cache'[k].present /\ now > cache[k].expires_at
                   \/ ~cache'[k].present /\ CopStep("delete") /\ cop'.key = k
                   \/ ~cache'[k].present /\ CopStep("clear")
                   \/ ~cache'[k].present /\ CopStep("set") /\ cop'.evicted = k
       /\ \A k \in CacheKeys :
            (~cache[k].present /\ cache'[k].present) => (CopStep("set") /\ cop'.key = k)
       /\ CopStep("get") =>
            LET k == cop'.key
            IN /\ (cache[k].present /\ now <= cache[k].expires_at)
                     => /\ cop'.value = cache[k].value
                        /\ cache'[k].present
               /\ ~cache[k].present => (cop'.value = NoSnapshot /\ ~cache'[k].present)
       /\ CopStep("delete") =>
            /\ cop'.found <=> cache[cop'.key].present
            /\ ~cache'[cop'.key].present
       /\ CopStep("clear") => \A k \in CacheKeys : ~cache'[k].present
       /\ CopStep("size") =>
            /\ cop'.size = Cardinality({k \in CacheKeys : cache[k].present})
            /\ cache' = cache
      ]_vars

\* a get has returned the value of an entry that was set earlier, at the
\* last moment of its ttl
C30_Witness ==
    /\ cop.op = "get" /\ cop.value \in CacheValues
    /\ cache[cop.key].present /\ cache[cop.key].value = cop.value
    /\ cache[cop.key].created_at = 0
    /\ now = cache[cop.key].expires_at /\ cache[cop.key].accessed_at = now

\* audit entries a call has appended
PayAuditEntries(p) == {e \in audit_logs : e[2] = "pay" /\ e[3] = p}
RefAuditEntries(r) == {e \in audit_logs : e[2] = "refund" /\ e[3] = r}

\* C31: the audit log is append-only: no step updates or deletes an entry;
\* each process_payment or process_refund call appends at most one entry,
\* and exactly one when it returns normally.
C31_AuditAppendOnly ==
    [][/\ audit_logs \subseteq audit_logs'
       /\ Cardinality(audit_logs') <= Cardinality(audit_logs) + 1
       /\ \A p \in PayCalls :
             /\ Cardinality(PayAuditEntries(p)') <= 1
             /\ (pay'[p].pc = "done" /\ pay'[p].outcome = "response")
                    => Cardinality(PayAuditEntries(p)') = 1
             /\ PayAuditEntries(p)' # PayAuditEntries(p) => pay[p].pc = "audit"
       /\ \A r \in RefundCalls :
             /\ Cardinality(RefAuditEntries(r)') <= 1
             /\ (ref'[r].pc = "done" /\ ref'[r].outcome = "response")
                    => Cardinality(RefAuditEntries(r)') = 1
             /\ RefAuditEntries(r)' # RefAuditEntries(r) => ref[r].pc = "audit"
      ]_vars

\* a payment and a refund have both returned, each with its entry in the log
C31_Witness ==
    \E p \in PayCalls, r \in RefundCalls :
        /\ pay[p].pc = "done" /\ pay[p].outcome = "response"
        /\ ref[r].pc = "done" /\ ref[r].outcome = "response"
        /\ Cardinality(PayAuditEntries(p)) = 1
        /\ Cardinality(RefAuditEntries(r)) = 1
        /\ Cardinality(audit_logs) >= 2

\* the Decimal is zero, negative, or has more than 2 fractional digits
BadAmount(d) == d.coef <= 0 \/ d.exp < -2

\* C32: a payment request whose amount is zero, negative or has more than 2
\* fractional digits, and a refund request whose explicit amount is such, is
\* refused with a validation error, and for a refused request no persistence
\* write and no gateway call is made; no other request is refused.
C32_BadAmountRejectedBeforeAnyWrite ==
    /\ \A p \in PayCalls :
          pay[p].pc # "idle"
              => /\ BadAmount(pay[p].request_amount) <=> pay[p].pc = "rejected"
                 /\ pay[p].pc = "rejected"
                       => /\ pay[p].err = "ValidationError"
                          /\ pay[p].db_ops = 0 /\ ~db_txn[p].present
                          /\ ~gw.authorize[p] /\ gw.capture[p] = 0
                          /\ PayAuditEntries(p) = {}
                          /\ \A e \in events : ~(e[1] = "payment_status_changed" /\ e[2] = p)
    /\ \A r \in RefundCalls :
          /\ ref[r].pc \in {"accepted", "rejected"}
                => ((ref[r].body.given /\ BadAmount(ref[r].body))
                        <=> ref[r].pc = "rejected")
          /\ ref[r].pc = "rejected"
                => /\ ref[r].err = "ValidationError"
                   /\ ~db_refund[r].present /\ gw.refund[r] = 0
                   /\ RefAuditEntries(r) = {}
          /\ ref[r].pc \notin {"idle", "accepted", "rejected"} => ref[r].requested >= 0

\* a payment request for -0.01 and a refund request for 0.00 were refused,
\* another refund request with no amount was accepted
C32_Witness ==
    \E p \in PayCalls, r1, r2 \in RefundCalls :
        /\ pay[p].pc = "rejected" /\ pay[p].request_amount.coef < 0
        /\ ref[r1].pc = "rejected" /\ ref[r1].body.given /\ ref[r1].body.coef = 0
        /\ ref[r2].pc = "accepted" /\ ~ref[r2].body.given

\* C33: the health endpoint reports healthy exactly when the database,
\* banking-service and event-service checks all returned true; a check that
\* returned false or raised is reported as false for its service and makes
\* the overall status unhealthy; the endpoint itself always answers.
C33_HealthyIffAllChecksTrue ==
    /\ \A x \in HealthServices :
          hc.result[x] # "unset" => (hc.services[x] <=> hc.result[x] = "true")
    /\ hc.pc = "done"
          => /\ hc.outcome = "response" /\ hc.http = 200
             /\ hc.status \in {"healthy", "unhealthy"}
             /\ hc.status = "healthy" <=> \A x \in HealthServices : hc.result[x] = "true"
             /\ \A x \in HealthServices :
                   hc.result[x] \in {"false", "raise"}
                       => (~hc.services[x] /\ hc.status = "unhealthy")

\* the banking check raised, the two others returned true: unhealthy, answered
C33_Witness ==
    /\ hc.pc = "done" /\ hc.outcome = "response" /\ hc.status = "unhealthy"
    /\ hc.result["banking_service"] = "raise" /\ ~hc.services["banking_service"]
    /\ hc.services["database"] /\ hc.services["event_service"]

C35_NoCapturedFundsBehindFailed ==
    \A p \in PayCalls :
        (db_txn[p].present /\ db_txn[p].status = "failed") => ~gw.captured[p]

\* place of a status in the lifecycle order: pending, then authorized, then
\* captured or failed
LifecycleRank(x) ==
    CASE x = "pending" -> 0
      [] x = "authorized" -> 1
      [] OTHER -> 2

\* C36 as stated: of two get_payment_status calls on one transaction, the
\* second made after the first returned, the second never returns a status
\* earlier in the lifecycle order than the first returned.
C36_MonotonicReads ==
    \A s1, s2 \in DOMAIN st :
        ( /\ st[s1].pc = "done" /\ st[s1].outcome = "response"
          /\ st[s2].pc = "done" /\ st[s2].outcome = "response"
          /\ st[s1].txn = st[s2].txn
          /\ s1 \in st[s2].done_before )
            => LifecycleRank(st[s1].resp.status) <= LifecycleRank(st[s2].resp.status)

\* value carries, field by field, a row that table transactions has held for
\* transaction t
HeldSnapshot(t, value) ==
    \E row \in held[t] : \A f \in SnapshotFields : value[f] = row[f]

\* the entry under key t is written by this step (created or replaced, not
\* merely read)
CacheWritten(t) ==
    /\ cache'[t].present
    /\ \/ ~cache[t].present
       \/ cache'[t].value # cache[t].value
       \/ cache'[t].created_at # cache[t].created_at
       \/ cache'[t].expires_at # cache[t].expires_at

\* C37: every entry in the cache under a transaction's status key is a
\* snapshot of a row the persistence collaborator has held for that
\* transaction; an entry is written only by a get_payment_status call after
\* its own successful persistence read, with the snapshot it read; no step of
\* process_payment changes the cache.
C37_CacheProvenance ==
    /\ [](\A t \in TxnIds : cache[t].present => HeldSnapshot(t, cache[t].value))
    /\ [][\A t \in TxnIds :
            CacheWritten(t)
                => \E s \in DOMAIN st :
                      /\ st[s].pc = "cache_set" /\ st'[s].pc = "done"
                      /\ st[s].txn = t
                      /\ st[s].db_reads = 1
                      /\ st[s].read_status \in PaymentStatus
                      /\ st[s].resp.status = st[s].read_status
                      /\ cache'[t].value = ResponseDict(st[s].resp)]_vars
    /\ [][pay' # pay => cache' = cache]_vars

\* an entry written by a call that read the row in authorized is still in the
\* cache after the row has moved on to captured
C37_Witness ==
    \E s \in StatusCalls :
        /\ st[s].pc = "done" /\ st[s].cache_writes = 1 /\ st[s].read_status = "authorized"
        /\ cache[st[s].txn].present
        /\ cache[st[s].txn].value["status"] = "authorized"
        /\ db_txn[st[s].txn].status = "captured"

\* C38 as stated: whenever authorize_payment has returned to process_payment,
\* what it returned is a result whose status is approved or declined; a call
\* that went past the authorization has never read its decision from
\* anything else.
C38_AuthorizeReturnsDecision ==
    \A p \in PayCalls :
        /\ pay[p].auth \in {"unset", "approved", "declined"}
        /\ pay[p].raised # "AttributeError"

\* C39: every process_payment call and every process_refund call that has
\* been made eventually terminates, returning a response or raising,
\* whatever the collaborators answer; a gateway failing every authorize
\* request ends the retries after RetryBudget requests.
C39_CallsTerminate ==
    /\ \A p \in PayCalls : (pay[p].pc = "accepted") ~> (pay[p].pc = "done")
    /\ \A r \in RefundCalls : (ref[r].pc = "accepted") ~> (ref[r].pc = "done")
    /\ [](\A p \in PayCalls : pay[p].requests < RetryBudget)

\* a call has ended with the authorization given up after the whole budget
\* of requests failed, and a refund call has ended too
C39_Witness ==
    \E p \in PayCalls, r \in RefundCalls :
        /\ pay[p].pc = "done" /\ pay[p].raised = "RetryError"
        /\ pay[p].failed_at = "authorize" /\ pay[p].outcome = "error"
        /\ ref[r].pc = "done" /\ ref[r].outcome = "error"

====
